---- MODULE Spec2Model ----
(***************************************************************************)
(* The dual-tier memory manager of src/agent.py (class MemorySystem): a    *)
(* bounded FIFO short-term list, an importance-gated long-term list, the   *)
(* JSON store the long-term list is saved to and loaded from, the        *)
(* keyword search over both tiers and the context string; and the agent   *)
(* of the same file (class PyMOLAgent), which records the turns of a       *)
(* conversation in that memory and runs the tools the model calls.         *)
(*                                                                         *)
(* Strings are sequences of one-character strings.  Importances are in    *)
(* tenths (7 stands for 0.7).  A datetime is a record [min, sec, usec];    *)
(* its ISO text is the sequence of its printed components, which has no   *)
(* fractional part when usec = 0, as datetime.isoformat() prints it.       *)
(***************************************************************************)
EXTENDS Integers, Sequences, FiniteSets, TLC

VARIABLES
    max_short_term,  \* MemorySystem.max_short_term
    short_term,      \* MemorySystem.short_term : sequence of items
    long_term,       \* MemorySystem.long_term  : sequence of items
    store,           \* the file memory_file names: [kind, data]
    nextId,          \* identity of the next MemoryItem object created
    ops,             \* number of constructions and mutating calls so far
    last,            \* the last call: [op, item, io, raised, query, limit, ret]
    added,           \* history: items add_short_term created since construction
    evicted,         \* history: items popped from short_term since construction
    persisted,       \* history: [valid, items] long_term at the last good write
    before,          \* history: short_term and long_term before the last call
    agent,           \* PyMOLAgent: where process_message is, its message, the
                     \*   function calls and tool results at hand, what it
                     \*   returned
    written,         \* history: [any, items] long_term at the last write that
                     \*   succeeded, whatever became of the store since
    held,            \* a caller of search_memory: the list it was handed
                     \*   and still holds, and what it was when handed over
    loop,            \* the event loop under process_message calls made as
                     \*   tasks: who has control, the frames of the tasks
                     \*   that do not, and which cycle added which entry
    pair,            \* a second manager on the same store: which of the two
                     \*   the lists above belong to, the lists of the other,
                     \*   who wrote last and which items each one made
    tool_registry,   \* ToolRegistry: tools, tool_declarations, and as
                     \*   history the register_tool calls made
    pymol,           \* PyMOLCommandExecutor: how often the PyMOL process was
                     \*   started, and as history the last call and what it
                     \*   returned
    opened           \* history: whether the load of the last construction
                     \*   failed and the store it found, the adds since, and
                     \*   the items that entered long_term in calls whose
                     \*   write failed

(* The manager PyMOLAgent.memory and its histories. *)
memory == <<max_short_term, short_term, long_term, store, nextId, ops, last,
            added, evicted, persisted, before>>

(* What only some of the specifications below move. *)
aside == <<held, loop, opened, pair, tool_registry, pymol>>


vars == <<max_short_term, short_term, long_term, store, nextId, ops, last,
          added, evicted, persisted, before, agent, written, aside>>

----------------------------------------------------------------------------
(* Bounds of the model. *)

MaxCap == 2
MaxOps == 3

(* Program constant: the promotion threshold 0.7, in tenths. *)
PromoteThreshold == 7

----------------------------------------------------------------------------
(* Inputs. *)

sBindIt == <<"B", "i", "n", "d", " ", "i", "t">>
sSite   == <<"s", "i", "t", "e">>
sXyz    == <<"x", "y", "z">>
sBind   == <<"b", "i", "n", "d">>

(* Arguments of add_short_term / add_long_term: content, importance, tags. *)
CallArgs ==
    { [content |-> sBindIt, importance |-> 5, tags |-> <<>>],
      [content |-> sSite,   importance |-> 7, tags |-> <<sBind>>],
      [content |-> sXyz,    importance |-> 9, tags |-> <<>>] }

(* What datetime.now() may return. *)
Clock == { [min |-> 0, sec |-> 1, usec |-> 0],
           [min |-> 1, sec |-> 0, usec |-> 5] }

WriteOutcomes == {"ok", "open_fails", "dump_fails"}
ReadOutcomes  == {"ok", "io_error"}

----------------------------------------------------------------------------
(* datetime.isoformat / datetime.fromisoformat *)

IsoFormatSeconds(ts) == <<ts.min, ts.sec>>

IsoFormat(ts) ==
    IF ts.usec = 0 THEN <<ts.min, ts.sec>> ELSE <<ts.min, ts.sec, ts.usec>>

IsoOk(s) == Len(s) \in {2, 3}

FromIsoFormat(s) ==
    [min |-> s[1], sec |-> s[2], usec |-> IF Len(s) = 3 THEN s[3] ELSE 0]

----------------------------------------------------------------------------
(* MemoryItem and the persisted record shape *)

MemoryItem(id, ts, content, importance, tags) ==
    [id |-> id, timestamp |-> ts, content |-> content,
     importance |-> importance, tags |-> tags]

RecordKeys == {"timestamp", "content", "importance", "tags"}

NoStore   == [kind |-> "absent", data |-> <<>>]
TextStore == [kind |-> "text", data |-> <<>>]
JsonStore(data) == [kind |-> "json", data |-> data]

(* _save_memory: the list of dicts handed to json.dump *)
DumpRecords(lt) ==
    [i \in 1..Len(lt) |->
        [timestamp  |-> IsoFormat(lt[i].timestamp),
         content    |-> lt[i].content,
         importance |-> lt[i].importance,
         tags       |-> lt[i].tags]]

(* _save_memory: the store and whether the error reaches the caller *)
SaveMemoryNewest(st, lt, outcome) ==
    [store  |-> CASE outcome = "ok"         ->
                        JsonStore(DumpRecords(
                            IF lt = <<>> THEN <<>> ELSE <<lt[Len(lt)]>>))
                  [] outcome = "open_fails" -> st
                  [] outcome = "dump_fails" -> TextStore,
     raised |-> FALSE]

SaveMemoryAppending(st, lt, outcome) ==
    [store  |-> CASE outcome = "ok"         ->
                        JsonStore(st.data \o DumpRecords(lt))
                  [] outcome = "open_fails" -> st
                  [] outcome = "dump_fails" -> TextStore,
     raised |-> FALSE]

SaveMemoryRaising(st, lt, outcome) ==
    [store  |-> CASE outcome = "ok"         -> JsonStore(DumpRecords(lt))
                  [] outcome = "open_fails" -> st
                  [] outcome = "dump_fails" -> TextStore,
     raised |-> outcome # "ok"]

SaveMemory(st, lt, outcome) ==
    [store  |-> CASE outcome = "ok"         -> JsonStore(DumpRecords(lt))
                  [] outcome = "open_fails" -> st
                  [] outcome = "dump_fails" -> TextStore,
     raised |-> FALSE]

RecordOk(rec) == RecordKeys \subseteq DOMAIN rec /\ IsoOk(rec.timestamp)

(* _load_memory: the value of long_term after construction *)
LoadMemoryPartial(st, read, firstId) ==
    IF st.kind = "absent" THEN <<>>
    ELSE IF read = "io_error" \/ st.kind = "text" THEN <<>>
    ELSE LET good == {n \in 0..Len(st.data) :
                        \A i \in 1..n : RecordOk(st.data[i])}
             n == CHOOSE m \in good : \A k \in good : k <= m
         IN [i \in 1..n |->
                MemoryItem(firstId + i - 1,
                           FromIsoFormat(st.data[i].timestamp),
                           st.data[i].content,
                           st.data[i].importance,
                           st.data[i].tags)]

LoadMemory(st, read, firstId) ==
    IF st.kind = "absent" THEN <<>>
    ELSE IF read = "io_error" \/ st.kind = "text" THEN <<>>
    ELSE IF \E i \in 1..Len(st.data) : ~RecordOk(st.data[i]) THEN <<>>
    ELSE [i \in 1..Len(st.data) |->
            MemoryItem(firstId + i - 1,
                       FromIsoFormat(st.data[i].timestamp),
                       st.data[i].content,
                       st.data[i].importance,
                       st.data[i].tags)]

----------------------------------------------------------------------------
(* Stores that may exist before the first construction. *)

GoodRecord ==
    [timestamp |-> <<0, 2, 7>>, content |-> sSite, importance |-> 6,
     tags |-> <<>>]
NoTagsRecord ==
    [timestamp |-> <<0, 2>>, content |-> sXyz, importance |-> 8]
BadStampRecord ==
    [timestamp |-> <<0>>, content |-> sXyz, importance |-> 8, tags |-> <<>>]

InitialStores ==
    { NoStore, TextStore,
      JsonStore(<<GoodRecord>>),
      JsonStore(<<GoodRecord, NoTagsRecord>>),
      JsonStore(<<GoodRecord, BadStampRecord>>) }

(* The record of a call: what was called, the item it created, how the
   file access went, whether it raised, and for a query its arguments and
   the value it returned. *)
Call(op, item, io, raised) ==
    [op |-> op, item |-> item, io |-> io, raised |-> raised,
     query |-> <<>>, limit |-> 0, ret |-> <<>>]

NoCall(op, io) == Call(op, <<>>, io, FALSE)

(* What process_message returned: nothing yet, the model's reply (direct,
   or final after a round of tools) or the message of the except clause. *)
NoReturn == [kind |-> "none", via |-> "none", text |-> <<>>]

(* The agent between two process_message calls. *)
AgentIdle ==
    [pc |-> "idle", message |-> <<>>, context |-> <<>>, calls |-> <<>>,
     results |-> <<>>, returned |-> NoReturn, turns |-> 0]

(* The state after MemorySystem.__init__ with one of these values of
   max_short_term on one of these stores. *)
(* _load_memory, lines 100-114: the except clause is reached *)
LoadFails(st, read) ==
    /\ st.kind # "absent"
    /\ \/ read = "io_error"
       \/ st.kind = "text"
       \/ \E i \in 1..Len(st.data) : ~RecordOk(st.data[i])

(* PyMOLCommandExecutor.__init__: no call made, no process started *)
NewExecutor ==
    [calls |-> 0, runs |-> 0, ranBefore |-> 0,
     last |-> [op |-> "none", arg |-> <<>>, valid |-> TRUE,
               outcome |-> "none", raised |-> FALSE,
               result |-> [success |-> TRUE]]]

(* ToolRegistry.__init__ *)
NewRegistry == [tools |-> <<>>, tool_declarations |-> <<>>, calls |-> <<>>]

(* One manager only: the second is not constructed. *)
NoPair ==
    [inHand |-> "first", constructed |-> FALSE, writer |-> "none",
     born |-> [first |-> 1, second |-> 0],
     made |-> [first |-> {}, second |-> {}],
     parked |-> [short_term |-> <<>>, long_term |-> <<>>,
                 added |-> <<>>, evicted |-> <<>>]]

(* No construction and no add is on record. *)
NotOpened ==
    [failed |-> FALSE, store |-> NoStore, adds |-> 0,
     unsaved |-> <<>>, flushed |-> <<>>]

(* What a construction that found the store st puts on record. *)
OpenedOn(st, read) ==
    [failed |-> LoadFails(st, read), store |-> st, adds |-> 0,
     unsaved |-> <<>>, flushed |-> <<>>]

(* The coroutines of process_message the event loop has been given. *)
Tasks == {"first", "second"}

(* No task has started: the loop has control. *)
NoTasks ==
    [running |-> FALSE, current |-> "first",
     frames |-> [t \in Tasks |-> AgentIdle],
     owners |-> <<>>, cycles |-> 0]

(* No caller holds a list search_memory returned. *)
NothingHeld ==
    [taken |-> FALSE, list |-> [live |-> FALSE, items |-> <<>>,
                                query |-> <<>>, limit |-> 0],
     was |-> <<>>, store |-> NoStore]

InitFound(caps, stores, onRecord) ==
    \E cap \in caps, st \in stores, read \in ReadOutcomes :
        LET lt == LoadMemory(st, read, 1) IN
        /\ max_short_term = cap
        /\ short_term = <<>>
        /\ long_term = lt
        /\ store = st
        /\ nextId = 1 + Len(lt)
        /\ ops = 0
        /\ last = NoCall("construct", IF st.kind = "absent" THEN "ok" ELSE read)
        /\ added = <<>>
        /\ evicted = <<>>
        /\ persisted = [valid |-> FALSE, items |-> <<>>]
        /\ before = [short_term |-> <<>>, long_term |-> <<>>]
        /\ agent = AgentIdle
        /\ written = [any |-> FALSE, items |-> <<>>]
        /\ held = NothingHeld
        /\ loop = NoTasks
        /\ pair = NoPair
        /\ tool_registry = NewRegistry
        /\ pymol = NewExecutor
        /\ opened = IF onRecord THEN OpenedOn(st, read) ELSE NotOpened

InitOn(caps, stores) == InitFound(caps, stores, FALSE)

Init == InitOn(0..MaxCap, InitialStores)

(* The two lists as a call finds them. *)
Snapshot == [short_term |-> short_term, long_term |-> long_term]

(* MemorySystem.__init__ of a later manager on the same store (a restart of
   the same program: same max_short_term). *)
Construct(read) ==
    LET lt == LoadMemory(store, read, nextId) IN
    /\ ops' = ops + 1
    /\ short_term' = <<>>
    /\ long_term' = lt
    /\ nextId' = nextId + Len(lt)
    /\ last' = NoCall("construct",
                      IF store.kind = "absent" THEN "ok" ELSE read)
    /\ added' = <<>>
    /\ evicted' = <<>>
    /\ before' = Snapshot
    /\ UNCHANGED <<max_short_term, store, persisted>>

(* The history of the last good write, after a write with this outcome. *)
PersistedAfter(lt, outcome) ==
    CASE outcome = "ok"         -> [valid |-> TRUE, items |-> lt]
      [] outcome = "open_fails" -> persisted
      [] outcome = "dump_fails" -> [valid |-> FALSE, items |-> <<>>]

(* add_short_term, line 59: the overflow test *)
OverflowsLate(appended, cap) == Len(appended) > cap + 1

Overflows(appended, cap) == Len(appended) > cap

(* add_short_term, line 61: pop(0) returns the item at index 0 ... *)
Oldest(appended) == Head(appended)

(* ... and removes it from the list *)
AfterPopLast(appended) == SubSeq(appended, 1, Len(appended) - 1)

AfterPop(appended) == Tail(appended)

(* add_short_term, line 62: the promotion gate *)
PromotesStrict(oldest) == oldest.importance > PromoteThreshold

Promotes(oldest) == oldest.importance >= PromoteThreshold

(* add_short_term, line 63: long_term.append(oldest) *)
PromotedTwice(lt, oldest) == Append(Append(lt, oldest), oldest)

PromotedAtFront(lt, oldest) == <<oldest>> \o lt

PromotedRestamped(lt, oldest) ==
    Append(lt, [oldest EXCEPT !.timestamp.usec = @ + 1])

Promoted(lt, oldest) == Append(lt, oldest)

(* MemorySystem.add_short_term *)
AddShortTerm(a, now, w) ==
    LET item == MemoryItem(nextId, now, a.content, a.importance, a.tags)
        appended == Append(short_term, item)
        over == Overflows(appended, max_short_term)
        oldest == Oldest(appended)
        st2 == IF over THEN AfterPop(appended) ELSE appended
        lt2 == IF over /\ Promotes(oldest)
               THEN Promoted(long_term, oldest) ELSE long_term
        sv == SaveMemory(store, lt2, w)
    IN
    /\ ops' = ops + 1
    /\ nextId' = nextId + 1
    /\ short_term' = st2
    /\ long_term' = lt2
    /\ store' = sv.store
    /\ last' = Call("add_short_term", <<item>>, w, sv.raised)
    /\ added' = Append(added, item)
    /\ evicted' = IF over THEN Append(evicted, oldest) ELSE evicted
    /\ persisted' = PersistedAfter(lt2, w)
    /\ before' = Snapshot
    /\ UNCHANGED max_short_term

(* add_long_term, line 75: long_term.append(item), whatever the importance *)
LongAppendedIfImportant(lt, item) ==
    IF item.importance >= PromoteThreshold THEN Append(lt, item) ELSE lt

LongAppended(lt, item) == Append(lt, item)

(* MemorySystem.add_long_term *)
AddLongTerm(a, now, w) ==
    LET item == MemoryItem(nextId, now, a.content, a.importance, a.tags)
        lt2 == LongAppended(long_term, item)
        sv == SaveMemory(store, lt2, w)
    IN
    /\ ops' = ops + 1
    /\ nextId' = nextId + 1
    /\ long_term' = lt2
    /\ store' = sv.store
    /\ last' = Call("add_long_term", <<item>>, w, sv.raised)
    /\ persisted' = PersistedAfter(lt2, w)
    /\ before' = Snapshot
    /\ UNCHANGED <<max_short_term, short_term, added, evicted>>

----------------------------------------------------------------------------
(* search_memory *)

Whitespace == {" ", "\t"}

(* str.lower on the letters the model uses: an upper-case letter goes to
   its lower-case form, every other character to itself. *)
LowerOf ==
    [c \in {"B", "I", "S", "T", "E", "Q"} |->
        CASE c = "B" -> "b" [] c = "I" -> "i" [] c = "S" -> "s"
          [] c = "T" -> "t" [] c = "E" -> "e" [] c = "Q" -> "q"]

LowerChar(c) == IF c \in DOMAIN LowerOf THEN LowerOf[c] ELSE c

Lower(s) == [i \in 1..Len(s) |-> LowerChar(s[i])]

(* str.split(): the maximal runs of non-whitespace characters, none for a
   string that has no other character *)
RECURSIVE SplitFrom(_, _, _)
SplitFrom(s, i, cur) ==
    LET done == IF cur = <<>> THEN <<>> ELSE <<cur>> IN
    IF i > Len(s) THEN done
    ELSE IF s[i] \in Whitespace THEN done \o SplitFrom(s, i + 1, <<>>)
    ELSE SplitFrom(s, i + 1, Append(cur, s[i]))

SplitWhole(s) == <<s>>

Split(s) == SplitFrom(s, 1, <<>>)

(* needle in hay *)
Contains(hay, needle) ==
    \E i \in 0..(Len(hay) - Len(needle)) :
        \A k \in 1..Len(needle) : hay[i + k] = needle[k]

(* search_memory, lines 84-85: the filter of the comprehension, given the
   words query.split() yields *)
MatchesCaseSensitive(mem, words) ==
    \E k \in 1..Len(words) : Contains(mem.content, words[k])

Matches(mem, words) ==
    LET content == Lower(mem.content) IN
    \E k \in 1..Len(words) : Contains(content, Lower(words[k]))

(* sorted(..., key=importance, reverse=True): descending and stable, so an
   item goes after the items of greater importance and after the items of
   equal importance that precede it in the input *)
SortedTiesReversed(items) ==
    LET n == Len(items)
        Rank(i) ==
            Cardinality({k \in 1..n :
                \/ items[k].importance > items[i].importance
                \/ items[k].importance = items[i].importance /\ k > i}) + 1
    IN [j \in 1..n |-> items[CHOOSE i \in 1..n : Rank(i) = j]]

SortedByImportance(items) ==
    LET n == Len(items)
        Rank(i) ==
            Cardinality({k \in 1..n :
                \/ items[k].importance > items[i].importance
                \/ items[k].importance = items[i].importance /\ k < i}) + 1
    IN [j \in 1..n |-> items[CHOOSE i \in 1..n : Rank(i) = j]]

(* seq[:limit] *)
Prefix(items, limit) ==
    IF limit >= 0
    THEN SubSeq(items, 1, IF limit < Len(items) THEN limit ELSE Len(items))
    ELSE SubSeq(items, 1, IF Len(items) + limit > 0
                          THEN Len(items) + limit ELSE 0)

(* A content that json.load returned as a number and not as a str: the
   load keeps it as it is, and it has no lower(). *)
NumberContent == <<"number">>

IsText(content) == content # NumberContent

(* search_memory, line 84: mem.content.lower() raises AttributeError when
   the content of an item the filter reaches is not a str; with no word in
   the query any() evaluates it for no item. *)
SearchRaises(all_memories, words) ==
    /\ Len(words) > 0
    /\ \E i \in 1..Len(all_memories) : ~IsText(all_memories[i].content)

(* search_memory, lines 80-87: what it returns on the lists st and lt *)
SearchResult(st, lt, query, limit) ==
    LET all_memories == st \o lt
        words == Split(query)
        relevant == SelectSeq(all_memories, LAMBDA mem : Matches(mem, words))
    IN Prefix(SortedByImportance(relevant), limit)

(* MemorySystem.search_memory *)
SearchMemory(query, limit) ==
    LET all_memories == short_term \o long_term
        words == Split(query)
        raises == SearchRaises(all_memories, words)
    IN
    /\ last' = [Call("search_memory", <<>>, "ok", raises) EXCEPT
                   !.query = query, !.limit = limit,
                   !.ret = IF raises THEN <<>>
                           ELSE SearchResult(short_term, long_term,
                                             query, limit)]
    /\ before' = Snapshot
    /\ UNCHANGED <<max_short_term, short_term, long_term, store, nextId,
                   ops, added, evicted, persisted>>

----------------------------------------------------------------------------
(* get_context *)

Sentinel ==
    <<"N", "o", " ", "p", "r", "e", "v", "i", "o", "u", "s", " ",
      "c", "o", "n", "t", "e", "x", "t", ".">>

Digit == <<"0", "1", "2", "3", "4", "5", "6", "7", "8", "9">>

(* strftime('%H:%M'): two digits each; the datetimes of the model are all
   in hour 0 *)
TwoDigits(n) == <<Digit[(n \div 10) + 1], Digit[(n % 10) + 1]>>

HourMinute(ts) == TwoDigits(0) \o <<":">> \o TwoDigits(ts.min)

(* get_context, line 95: the line of one item *)
ContextLine(mem) == <<"[">> \o HourMinute(mem.timestamp) \o <<"]", " ">>
                    \o mem.content

(* "\n".join(lines) *)
RECURSIVE JoinLines(_)
JoinLines(lines) ==
    IF Len(lines) = 0 THEN <<>>
    ELSE IF Len(lines) = 1 THEN lines[1]
    ELSE lines[1] \o <<"\n">> \o JoinLines(Tail(lines))

(* seq[-limit:]: -0 is 0, so with limit = 0 the slice is seq[0:], the whole
   list *)
Suffix(items, limit) ==
    LET n == Len(items) IN
    IF limit > 0 THEN SubSeq(items, (IF n > limit THEN n - limit ELSE 0) + 1, n)
    ELSE IF limit = 0 THEN items
    ELSE SubSeq(items, (0 - limit) + 1, n)

(* get_context, line 91: the test for the sentinel *)
NoContextIfBothEmpty(st, lt) == st = <<>> /\ lt = <<>>

NoContext(st, lt) == st = <<>>

(* The string get_context(limit) returns *)
ContextText(st, lt, limit) ==
    LET context_items == Suffix(st, limit)
        lines == [i \in 1..Len(context_items) |->
                     ContextLine(context_items[i])]
    IN IF NoContext(st, lt) THEN Sentinel ELSE JoinLines(lines)

(* MemorySystem.get_context *)
GetContext(limit) ==
    /\ last' = [Call("get_context", <<>>, "ok", FALSE) EXCEPT
                   !.limit = limit,
                   !.ret = ContextText(short_term, long_term, limit)]
    /\ before' = Snapshot
    /\ UNCHANGED <<max_short_term, short_term, long_term, store, nextId,
                   ops, added, evicted, persisted>>

Next ==
    \/ /\ ops < MaxOps
       /\ \E a \in CallArgs, now \in Clock, w \in WriteOutcomes :
             AddShortTerm(a, now, w)
       /\ UNCHANGED <<agent, written, aside>>
    \/ /\ ops < MaxOps
       /\ \E a \in CallArgs, now \in Clock, w \in WriteOutcomes :
             AddLongTerm(a, now, w)
       /\ UNCHANGED <<agent, written, aside>>
    \/ /\ ops < MaxOps
       /\ \E read \in ReadOutcomes : Construct(read)
       /\ UNCHANGED <<agent, written, aside>>

Spec == Init /\ [][Next]_vars

(* The same calls, with the history of the last write that succeeded: a
   write that fails later leaves it as it is. *)
WrittenAfter(lt, outcome) ==
    IF outcome = "ok" THEN [any |-> TRUE, items |-> lt] ELSE written

NextRestart ==
    \/ /\ ops < MaxOps
       /\ \E a \in CallArgs, now \in Clock, w \in WriteOutcomes :
             /\ AddShortTerm(a, now, w)
             /\ written' = WrittenAfter(long_term', w)
             /\ UNCHANGED aside
       /\ UNCHANGED agent
    \/ /\ ops < MaxOps
       /\ \E a \in CallArgs, now \in Clock, w \in WriteOutcomes :
             /\ AddLongTerm(a, now, w)
             /\ written' = WrittenAfter(long_term', w)
             /\ UNCHANGED aside
       /\ UNCHANGED agent
    \/ /\ ops < MaxOps
       /\ \E read \in ReadOutcomes : Construct(read)
       /\ UNCHANGED <<agent, written, aside>>

SpecRestart == Init /\ [][NextRestart]_vars

(* The manager with its queries: the same calls with file accesses that
   succeed (a query reads short_term and long_term only, and these do not
   depend on how a write ended), and search_memory and get_context with
   queries and limits from small sets.  A query changes nothing a query
   reads, so a query made right after a query ends in the state the same
   query reaches from the state before the two: queries are taken from the
   states whose last call is not a query. *)
MaxQueryOps == 2

qBind   == <<"b", "i", "n", "d">>
qSiteQ  == <<"S", "I", "T", "E", " ", "\t", "q">>
qIt     == <<"i", "t">>
qBlank  == <<" ">>
qEmpty  == <<>>

Queries == {qBind, qSiteQ, qIt, qBlank, qEmpty}
Limits  == {0, 1, 2, 5}

(* The arguments of the calls, with an empty content among them. *)
QueryCallArgs ==
    {a \in CallArgs : a.content # sXyz}
        \cup {[content |-> <<>>, importance |-> 9, tags |-> <<>>]}

IsQuery(op) == op \in {"search_memory", "get_context"}

NextQuery ==
    \/ /\ ops < MaxQueryOps
       /\ \E a \in QueryCallArgs, now \in Clock : AddShortTerm(a, now, "ok")
       /\ UNCHANGED <<agent, written, aside>>
    \/ /\ ops < MaxQueryOps
       /\ \E a \in QueryCallArgs, now \in Clock : AddLongTerm(a, now, "ok")
       /\ UNCHANGED <<agent, written, aside>>
    \/ /\ ops < MaxQueryOps
       /\ Construct("ok")
       /\ UNCHANGED <<agent, written, aside>>
    \/ /\ ~IsQuery(last.op)
       /\ \E q \in Queries, limit \in Limits : SearchMemory(q, limit)
       /\ UNCHANGED <<agent, written, aside>>
    \/ /\ ~IsQuery(last.op)
       /\ \E limit \in Limits : GetContext(limit)
       /\ UNCHANGED <<agent, written, aside>>

SpecQuery == Init /\ [][NextQuery]_vars

(* The same manager on stores written by another hand: JSON the load takes
   without an error though the content of a record is a number. *)
OddRecord ==
    [timestamp |-> <<0, 2, 7>>, content |-> NumberContent, importance |-> 6,
     tags |-> <<>>]

LoadedStores ==
    InitialStores \cup { JsonStore(<<OddRecord>>),
                         JsonStore(<<GoodRecord, OddRecord>>) }

InitLoaded == InitOn(0..MaxCap, LoadedStores)

SpecLoaded == InitLoaded /\ [][NextQuery]_vars

----------------------------------------------------------------------------
(* A caller that keeps the list search_memory returned while the manager
   goes on adding.  The caller searches once; the adds come before and
   after. *)
MaxHeldOps == 2

HeldQueries == {qIt, qSiteQ}
HeldLimits  == {1, 5}

(* search_memory, line 87: sorted() builds a new list and [:limit] another,
   so the caller is handed a list of its own; a live list would be read
   from short_term and long_term each time the caller looks at it. *)
ResultView(ret, query, limit) ==
    [live |-> TRUE, items |-> <<>>, query |-> query, limit |-> limit]

ResultList(ret, query, limit) ==
    [live |-> FALSE, items |-> ret, query |-> query, limit |-> limit]

(* What the caller finds in the list it holds. *)
Observed(list) ==
    IF list.live
    THEN SearchResult(short_term, long_term, list.query, list.limit)
    ELSE list.items

NextHeld ==
    \/ /\ ops < MaxHeldOps
       /\ \E a \in QueryCallArgs, now \in Clock : AddShortTerm(a, now, "ok")
       /\ UNCHANGED <<agent, written, aside>>
    \/ /\ ops < MaxHeldOps
       /\ \E a \in QueryCallArgs, now \in Clock : AddLongTerm(a, now, "ok")
       /\ UNCHANGED <<agent, written, aside>>
    \/ /\ ~held.taken
       /\ \E q \in HeldQueries, limit \in HeldLimits :
             /\ SearchMemory(q, limit)
             /\ held' = [taken |-> TRUE,
                         list |-> ResultList(last'.ret, q, limit),
                         was |-> last'.ret, store |-> store]
       /\ UNCHANGED <<agent, written, loop, opened,
                      pair, tool_registry, pymol>>
    \/ /\ ~IsQuery(last.op)
       /\ \E limit \in HeldLimits : GetContext(limit)
       /\ held' = [held EXCEPT !.store = store]
       /\ UNCHANGED <<agent, written, loop, opened,
                      pair, tool_registry, pymol>>

SpecHeld == Init /\ [][NextHeld]_vars

----------------------------------------------------------------------------
(* Restarts and writes that fail: the calls of the first specification with
   fewer arguments, and on record what each construction found and which
   items entered long_term in calls whose write failed. *)
MaxReloadOps == 3

ReloadArgs  == {a \in CallArgs : a.importance >= PromoteThreshold}
ReloadClock == {[min |-> 0, sec |-> 1, usec |-> 0]}

(* The record after an add that changed long_term from lt and whose write
   ended with this outcome. *)
OpenedAfterAdd(lt, outcome) ==
    LET entered == SubSeq(long_term', Len(lt) + 1, Len(long_term')) IN
    [opened EXCEPT
        !.adds = @ + 1,
        !.unsaved = IF outcome = "ok" THEN <<>> ELSE @ \o entered,
        !.flushed = IF outcome = "ok" THEN opened.unsaved ELSE <<>>]

NextReload ==
    \/ /\ ops < MaxReloadOps
       /\ \E a \in ReloadArgs, now \in ReloadClock, w \in WriteOutcomes :
             /\ AddShortTerm(a, now, w)
             /\ opened' = OpenedAfterAdd(long_term, w)
       /\ UNCHANGED <<agent, written, held, loop, pair, tool_registry, pymol>>
    \/ /\ ops < MaxReloadOps
       /\ \E a \in ReloadArgs, now \in ReloadClock, w \in WriteOutcomes :
             /\ AddLongTerm(a, now, w)
             /\ opened' = OpenedAfterAdd(long_term, w)
       /\ UNCHANGED <<agent, written, held, loop, pair, tool_registry, pymol>>
    \/ /\ ops < MaxReloadOps
       /\ \E read \in ReadOutcomes :
             /\ Construct(read)
             /\ opened' = OpenedOn(store, read)
       /\ UNCHANGED <<agent, written, held, loop, pair, tool_registry, pymol>>

InitReload == InitFound(0..MaxCap, InitialStores, TRUE)

SpecReload == InitReload /\ [][NextReload]_vars

----------------------------------------------------------------------------
(* Two managers on one store (two MemorySystem() objects, as two agents
   have, with the same memory_file).  The lists short_term and long_term
   above are those of the manager the next call is made on; the lists of
   the other are parked.  The store is one.  Writes succeed, and the clock
   gives every item a time of its own. *)
MaxPairOps == 3

PairClock == {[min |-> 0, sec |-> nextId, usec |-> 0]}

Other(name) == IF name = "first" THEN "second" ELSE "first"

(* The lists of the manager in hand, to be parked. *)
InHand ==
    [short_term |-> short_term, long_term |-> long_term,
     added |-> added, evicted |-> evicted]

(* MemorySystem.__init__ of the second manager, on the store as it is *)
ConstructSecond(read) ==
    /\ ~pair.constructed
    /\ Construct(read)
    /\ pair' = [pair EXCEPT !.inHand = "second", !.constructed = TRUE,
                            !.born.second = nextId, !.parked = InHand]

(* The next call is on the other manager. *)
Switch ==
    /\ pair.constructed
    /\ last.op # "switch"
    /\ short_term' = pair.parked.short_term
    /\ long_term' = pair.parked.long_term
    /\ added' = pair.parked.added
    /\ evicted' = pair.parked.evicted
    /\ last' = NoCall("switch", "ok")
    /\ before' = [short_term |-> short_term', long_term |-> long_term']
    /\ pair' = [pair EXCEPT !.inHand = Other(@), !.parked = InHand]
    /\ UNCHANGED <<max_short_term, store, nextId, ops, persisted>>

(* The manager in hand made an item and wrote the store. *)
PairAfterAdd ==
    [pair EXCEPT !.writer = pair.inHand,
                 !.made[pair.inHand] = @ \cup {last'.item[1].id}]

NextPair ==
    \/ /\ ops < MaxPairOps
       /\ \E a \in ReloadArgs, now \in PairClock : AddShortTerm(a, now, "ok")
       /\ pair' = PairAfterAdd
       /\ UNCHANGED <<agent, written,
                      held, loop, opened, tool_registry, pymol>>
    \/ /\ ops < MaxPairOps
       /\ \E a \in ReloadArgs, now \in PairClock : AddLongTerm(a, now, "ok")
       /\ pair' = PairAfterAdd
       /\ UNCHANGED <<agent, written,
                      held, loop, opened, tool_registry, pymol>>
    \/ /\ ops < MaxPairOps
       /\ \E read \in ReadOutcomes : ConstructSecond(read)
       /\ UNCHANGED <<agent, written,
                      held, loop, opened, tool_registry, pymol>>
    \/ /\ Switch
       /\ UNCHANGED <<agent, written,
                      held, loop, opened, tool_registry, pymol>>

SpecPair == Init /\ [][NextPair]_vars

----------------------------------------------------------------------------
(* PyMOLAgent: process_message and _handle_function_calls.  The agent owns
   one manager, MemorySystem() with its defaults, and the model and the
   tools are outside the program: what generate_content returns or raises
   and what a tool returns or raises are inputs.  process_message is
   followed from one call made outside to the next. *)

MaxTurns == 2

DefaultMaxShortTerm == 10
DefaultContextLimit == 5

UserImportance  == 8
ReplyImportance == 9
ErrorImportance == 10

UserPrefix  == <<"U", "s", "e", "r", ":", " ">>
AgentPrefix == <<"A", "g", "e", "n", "t", ":", " ">>

sHi == <<"h", "i">>
sOk == <<"o", "k">>

Messages == {sHi}

(* response.text: a string, or None when the response has no text part *)
NoText == <<"None">>

ReplyTexts == {sOk, NoText}

(* What an f-string makes of a value: None is rendered as 'None'. *)
Rendered(text) == IF text = NoText THEN <<"N", "o", "n", "e">> ELSE text

(* str(e) of what generate_content raised *)
sKeyExpired ==
    <<"A", "P", "I", " ", "k", "e", "y", " ", "e", "x", "p", "i", "r",
      "e", "d">>
sTimeout == <<"t", "i", "m", "e", "o", "u", "t">>

ErrorStrings == {sKeyExpired, sTimeout}

sKeyInvalid ==
    <<"A", "P", "I", "_", "K", "E", "Y", "_", "I", "N", "V", "A", "L",
      "I", "D">>

(* process_message, lines 326-339: the two messages of the except clause
   (of the first, the line that holds str(e) is kept) *)
KeyErrorHead ==
    <<"A", "P", "I", " ", "K", "e", "y", " ", "E", "r", "r", "o", "r",
      ":", " ">>
ErrorHead ==
    <<"E", "r", "r", "o", "r", " ", "p", "r", "o", "c", "e", "s", "s",
      "i", "n", "g", " ", "m", "e", "s", "s", "a", "g", "e", ":", " ">>

ErrorMessage(error_str) ==
    IF Contains(error_str, sKeyExpired) \/ Contains(error_str, sKeyInvalid)
    THEN KeyErrorHead \o error_str
    ELSE ErrorHead \o error_str

(* The entries process_message and _handle_function_calls hand to
   add_short_term *)
UserEntryAtThreshold(message) ==
    [content |-> UserPrefix \o message, importance |-> PromoteThreshold,
     tags |-> <<>>]

UserEntry(message) ==
    [content |-> UserPrefix \o message, importance |-> UserImportance,
     tags |-> <<>>]

DirectReplyEntry(text) ==
    [content |-> AgentPrefix \o Rendered(text),
     importance |-> ReplyImportance, tags |-> <<>>]

FinalReplyAsUserTurn(text) ==
    [content |-> AgentPrefix \o Rendered(text),
     importance |-> UserImportance, tags |-> <<>>]

FinalReplyEntry(text) ==
    [content |-> AgentPrefix \o Rendered(text),
     importance |-> ReplyImportance, tags |-> <<>>]

ErrorEntry(error_str) ==
    [content |-> ErrorMessage(error_str), importance |-> ErrorImportance,
     tags |-> <<>>]

(* The tools: echo_message of the agent, and one function of each module
   main.py registers. *)
Registered ==
    {"echo_message", "execute_pymol_command", "get_image_info",
     "get_desktop_info", "list_visible_windows"}

(* The dicts a tool function returns *)
ToolReturns(name) ==
    CASE name = "echo_message" ->
            { [message |-> "Echo: hi"] }
      [] name = "execute_pymol_command" ->
            { [success |-> TRUE, output |-> "stdout", command |-> "cmd"],
              [success |-> FALSE, error |-> "stderr", command |-> "cmd"] }
      [] name = "get_image_info" ->
            { [success |-> FALSE, error |-> "Error reading image"],
              [success |-> TRUE, size |-> "size", format |-> "format",
               mode |-> "mode", file_size |-> "file_size"] }
      [] name = "get_desktop_info" ->
            { [success |-> FALSE,
               error |-> "Desktop automation libraries not available"],
              [success |-> TRUE, screen_width |-> "width",
               screen_height |-> "height", current_position |-> "position"] }
      [] name = "list_visible_windows" ->
            { [success |-> FALSE,
               error |-> "GUI automation libraries not available"],
              [success |-> TRUE, windows |-> "windows",
               total_windows |-> "total"] }

(* How a call of a tool ends: it returns one of its dicts, or it raises (the
   declarations give the model no parameter, so **args may not fit). *)
ToolOutcomes(name) ==
    {[raised |-> FALSE, result |-> r] : r \in ToolReturns(name)}
        \cup {[raised |-> TRUE, exc |-> "unexpected keyword argument"]}

(* _handle_function_calls, lines 360-370: the response put in results *)
DispatcherResponse(outcome) ==
    IF outcome.raised THEN [error |-> outcome.exc] ELSE outcome.result

(* _handle_function_calls, lines 355-370: the lists results can be after the
   loop over these calls; a call of a name that is not registered adds
   nothing *)
RECURSIVE DispatchAnsweringAll(_)
DispatchAnsweringAll(calls) ==
    IF calls = <<>> THEN {<<>>}
    ELSE LET tool_name == Head(calls)
             rest == DispatchAnsweringAll(Tail(calls))
         IN IF tool_name \in Registered
            THEN {<<[name |-> tool_name,
                     response |-> DispatcherResponse(o)]>> \o r :
                      o \in ToolOutcomes(tool_name), r \in rest}
            ELSE {<<[name |-> tool_name,
                     response |-> [error |-> "unknown tool"]]>> \o r :
                      r \in rest}

RECURSIVE Dispatch(_)
Dispatch(calls) ==
    IF calls = <<>> THEN {<<>>}
    ELSE LET tool_name == Head(calls)
             rest == Dispatch(Tail(calls))
         IN IF tool_name \in Registered
            THEN {<<[name |-> tool_name,
                     response |-> DispatcherResponse(o)]>> \o r :
                      o \in ToolOutcomes(tool_name), r \in rest}
            ELSE rest

(* The function calls of a response of the model *)
CallLists ==
    {<<n>> : n \in Registered \cup {"unknown_tool"}}
        \cup {<<a, b>> : a \in {"echo_message", "unknown_tool"},
                         b \in {"execute_pymol_command", "unknown_tool"}}
        \cup {<<"echo_message", "unknown_tool", "execute_pymol_command">>}

(* process_message, lines 283-301: the user turn goes to memory, the context
   is read and the request is built; the model is called next.  The bound
   is on the number of calls the model follows. *)
ProcessMessageWithin(bound, message, now) ==
    /\ agent.pc = "idle"
    /\ agent.turns < bound
    /\ AddShortTerm(UserEntry(message), now, "ok")
    /\ agent' = [agent EXCEPT
                    !.pc = "model", !.message = message,
                    !.context = ContextText(short_term', long_term',
                                            DefaultContextLimit),
                    !.turns = @ + 1, !.returned = NoReturn]

ProcessMessage(message, now) == ProcessMessageWithin(MaxTurns, message, now)

(* process_message, lines 305-321: the model answers with text *)
ModelReplies(text, now) ==
    /\ agent.pc = "model"
    /\ AddShortTerm(DirectReplyEntry(text), now, "ok")
    /\ agent' = [agent EXCEPT
                    !.pc = "idle",
                    !.returned = [kind |-> "reply", via |-> "direct",
                                  text |-> text]]

(* process_message, lines 305-313, and _handle_function_calls, lines
   346-351: the model answers with function calls *)
ModelCallsTools(calls) ==
    /\ agent.pc = "model"
    /\ agent' = [agent EXCEPT !.pc = "tools", !.calls = calls]
    /\ UNCHANGED memory

(* _handle_function_calls, lines 354-383: the tools are run and their
   results are put in the request of the second call of the model *)
RunTools ==
    /\ agent.pc = "tools"
    /\ \E results \in Dispatch(agent.calls) :
          agent' = [agent EXCEPT !.pc = "final", !.results = results]
    /\ UNCHANGED memory

(* _handle_function_calls, lines 386-399: the model answers the results *)
FinalReplies(text, now) ==
    /\ agent.pc = "final"
    /\ AddShortTerm(FinalReplyEntry(text), now, "ok")
    /\ agent' = [agent EXCEPT
                    !.pc = "idle", !.calls = <<>>, !.results = <<>>,
                    !.returned = [kind |-> "reply", via |-> "tools",
                                  text |-> text]]

(* process_message, lines 323-342: generate_content raised, at line 305 or
   at line 386 *)
ModelFails(error_str, now) ==
    /\ agent.pc \in {"model", "final"}
    /\ AddShortTerm(ErrorEntry(error_str), now, "ok")
    /\ agent' = [agent EXCEPT
                    !.pc = "idle", !.calls = <<>>, !.results = <<>>,
                    !.returned = [kind |-> "error",
                                  via |-> IF agent.pc = "model"
                                          THEN "direct" ELSE "tools",
                                  text |-> ErrorMessage(error_str)]]

(* _handle_function_calls, lines 373-383, inside the try of
   process_message: building the function responses raised *)
ToolRoundFails(error_str, now) ==
    /\ agent.pc = "tools"
    /\ AddShortTerm(ErrorEntry(error_str), now, "ok")
    /\ agent' = [agent EXCEPT
                    !.pc = "idle", !.calls = <<>>, !.results = <<>>,
                    !.returned = [kind |-> "error", via |-> "tools",
                                  text |-> ErrorMessage(error_str)]]

InitAgent == InitOn({DefaultMaxShortTerm}, InitialStores)

NextAgent ==
    \/ /\ \E message \in Messages, now \in Clock :
             ProcessMessage(message, now)
       /\ UNCHANGED <<written, aside>>
    \/ /\ \E text \in ReplyTexts, now \in Clock : ModelReplies(text, now)
       /\ UNCHANGED <<written, aside>>
    \/ /\ \E calls \in CallLists : ModelCallsTools(calls)
       /\ UNCHANGED <<written, aside>>
    \/ /\ RunTools
       /\ UNCHANGED <<written, aside>>
    \/ /\ \E text \in ReplyTexts, now \in Clock : FinalReplies(text, now)
       /\ UNCHANGED <<written, aside>>
    \/ /\ \E error_str \in ErrorStrings, now \in Clock :
             ModelFails(error_str, now)
       /\ UNCHANGED <<written, aside>>
    \/ /\ \E error_str \in ErrorStrings, now \in Clock :
             ToolRoundFails(error_str, now)
       /\ UNCHANGED <<written, aside>>

SpecAgent == InitAgent /\ [][NextAgent]_vars

----------------------------------------------------------------------------
(* Two process_message calls given to one event loop as tasks (as
   asyncio.gather would).  A coroutine keeps control until it returns or
   reaches an await that suspends it; only then does the loop choose which
   task goes on.  The variable agent is the frame of the task in control. *)
MaxCycles == 2

(* process_message and _handle_function_calls: generate_content is called
   on the synchronous client (lines 305 and 386) and the only await, line
   313, is of the coroutine _handle_function_calls, which has no await of
   its own: no position of a cycle gives control back to the loop.  With
   the asynchronous client the two model calls would. *)
SuspendsAtModelCall(pc) == pc \in {"model", "final"}

Suspends(pc) == FALSE

(* The loop gives control to a task: to begin its call, or to go on from
   the await that suspended it. *)
Resume(t) ==
    LET parked == [loop.frames EXCEPT ![loop.current] = agent] IN
    /\ ~loop.running
    /\ parked[t].pc # "idle" \/ loop.cycles < MaxCycles
    /\ agent' = parked[t]
    /\ loop' = [loop EXCEPT !.running = TRUE, !.current = t,
                            !.frames = parked]
    /\ UNCHANGED memory

(* One step of the task in control: it goes on unless the step ended the
   call or left it at an await that suspends. *)
Stepped ==
    /\ loop.running
    /\ agent.pc = "idle" => loop.cycles < MaxCycles
    /\ loop' = [loop EXCEPT
                   !.running = ~(agent'.pc = "idle" \/ Suspends(agent'.pc)),
                   !.owners = IF Len(added') > Len(added)
                              THEN Append(@, <<loop.current, agent'.turns>>)
                              ELSE @,
                   !.cycles = IF agent.pc = "idle" THEN @ + 1 ELSE @]

(* Which task has control does not depend on what the model and the tools
   answer: one clock reading, one reply, one error and two call lists. *)
TaskClock        == {[min |-> 0, sec |-> 1, usec |-> 0]}
TaskReplyTexts   == {sOk}
TaskErrorStrings == {sTimeout}
TaskCallLists    == {<<"echo_message">>, <<"unknown_tool">>}

NextTasks ==
    \/ /\ \E t \in Tasks : Resume(t)
       /\ UNCHANGED <<written, held, opened, pair, tool_registry, pymol>>
    \/ /\ \E message \in Messages, now \in TaskClock :
             ProcessMessage(message, now)
       /\ Stepped
       /\ UNCHANGED <<written, held, opened, pair, tool_registry, pymol>>
    \/ /\ \E text \in TaskReplyTexts, now \in TaskClock :
             ModelReplies(text, now)
       /\ Stepped
       /\ UNCHANGED <<written, held, opened, pair, tool_registry, pymol>>
    \/ /\ \E calls \in TaskCallLists : ModelCallsTools(calls)
       /\ Stepped
       /\ UNCHANGED <<written, held, opened, pair, tool_registry, pymol>>
    \/ /\ RunTools
       /\ Stepped
       /\ UNCHANGED <<written, held, opened, pair, tool_registry, pymol>>
    \/ /\ \E text \in TaskReplyTexts, now \in TaskClock :
             FinalReplies(text, now)
       /\ Stepped
       /\ UNCHANGED <<written, held, opened, pair, tool_registry, pymol>>
    \/ /\ \E error_str \in TaskErrorStrings, now \in TaskClock :
             ModelFails(error_str, now)
       /\ Stepped
       /\ UNCHANGED <<written, held, opened, pair, tool_registry, pymol>>
    \/ /\ \E error_str \in TaskErrorStrings, now \in TaskClock :
             ToolRoundFails(error_str, now)
       /\ Stepped
       /\ UNCHANGED <<written, held, opened, pair, tool_registry, pymol>>

SpecTasks == InitAgent /\ [][NextTasks]_vars

----------------------------------------------------------------------------
(* A conversation long enough for short_term, ten items with the defaults,
   to overflow: process_message called one call after the other, the model
   and the tools answering as in the specification above. *)
MaxChatTurns == 6

NextChat ==
    \/ /\ \E message \in Messages, now \in TaskClock :
             ProcessMessageWithin(MaxChatTurns, message, now)
       /\ UNCHANGED <<written, aside>>
    \/ /\ \E text \in TaskReplyTexts, now \in TaskClock :
             ModelReplies(text, now)
       /\ UNCHANGED <<written, aside>>
    \/ /\ \E calls \in TaskCallLists : ModelCallsTools(calls)
       /\ UNCHANGED <<written, aside>>
    \/ /\ RunTools
       /\ UNCHANGED <<written, aside>>
    \/ /\ \E text \in TaskReplyTexts, now \in TaskClock :
             FinalReplies(text, now)
       /\ UNCHANGED <<written, aside>>
    \/ /\ \E error_str \in TaskErrorStrings, now \in TaskClock :
             ModelFails(error_str, now)
       /\ UNCHANGED <<written, aside>>
    \/ /\ \E error_str \in TaskErrorStrings, now \in TaskClock :
             ToolRoundFails(error_str, now)
       /\ UNCHANGED <<written, aside>>

SpecChat == InitAgent /\ [][NextChat]_vars

----------------------------------------------------------------------------
(* ToolRegistry.  A function is known by its name; the calls made are kept
   as history. *)
MaxCustomTools == 3

(* The register_tool calls of a construction, in order: PyMOLAgent.__init__
   registers echo_message, IntegratedPyMOLAgent.__init__ then the tools of
   the four modules. *)
BaseTools == <<"echo_message">>

PymolTools ==
    <<"execute_pymol_command", "load_molecule",
      "set_molecular_representation", "color_molecule", "zoom_to_object",
      "save_view_image", "get_molecule_info", "list_loaded_objects">>

VisionTools ==
    <<"analyze_molecular_image", "annotate_molecular_image",
      "compare_molecular_images", "get_image_info">>

DesktopTools ==
    <<"get_desktop_info", "find_application_window",
      "activate_application_window", "click_at_coordinates",
      "type_keyboard_text", "press_keyboard_key", "capture_screenshot",
      "get_current_mouse_position", "drag_mouse_coordinates">>

GuiInspectorTools ==
    <<"inspect_window_hierarchy", "find_clickable_elements",
      "get_element_at_coordinates", "capture_window_state",
      "list_visible_windows", "screenshot_window">>

ConstructionTools ==
    BaseTools \o PymolTools \o VisionTools \o DesktopTools
        \o GuiInspectorTools

(* What add_tool is called with after the construction: a name of a tool
   the construction registers and a name of its own, two functions, one
   with a docstring, and a description or None. *)
CustomNames  == {"echo_message", "custom_tool"}
CustomFuncs  == {"f", "g"}
Descriptions == {"None", "given"}

(* func.__doc__: the function g has no docstring *)
Doc(func) == IF func = "g" THEN "None" ELSE "doc"

(* register_tool, lines 146-152: the description of the declaration; None
   and the empty string give way to f"Tool for {name}" *)
Described(name, func, description) ==
    LET d == IF description = "None" THEN Doc(func) ELSE description
    IN IF d \in {"None", ""} THEN <<"Tool for ", name>> ELSE <<d>>

(* register_tool with a dict that keeps the function a name has *)
RegisterToolKeepingFirst(name, func, description) ==
    tool_registry' =
        [tools |-> [n \in DOMAIN tool_registry.tools \cup {name} |->
                       IF n \in DOMAIN tool_registry.tools
                       THEN tool_registry.tools[n] ELSE func],
         tool_declarations |->
             Append(tool_registry.tool_declarations,
                    [name |-> name,
                     description |-> Described(name, func, description)]),
         calls |-> Append(tool_registry.calls,
                          [name |-> name, func |-> func])]

(* ToolRegistry.register_tool *)
RegisterTool(name, func, description) ==
    tool_registry' =
        [tools |-> [n \in DOMAIN tool_registry.tools \cup {name} |->
                       IF n = name THEN func ELSE tool_registry.tools[n]],
         tool_declarations |->
             Append(tool_registry.tool_declarations,
                    [name |-> name,
                     description |-> Described(name, func, description)]),
         calls |-> Append(tool_registry.calls,
                          [name |-> name, func |-> func])]

(* The calls add_tool made after those of the construction. *)
CustomCalls ==
    Cardinality({i \in 1..Len(tool_registry.calls) :
                    tool_registry.calls[i].func \in CustomFuncs})

NextRegistry ==
    \/ /\ CustomCalls = 0
       /\ Len(tool_registry.calls) < Len(ConstructionTools)
       /\ LET name == ConstructionTools[Len(tool_registry.calls) + 1]
          IN RegisterTool(name, name, "given")
       /\ UNCHANGED <<memory, agent, written, held, loop, opened, pair, pymol>>
    \/ /\ CustomCalls < MaxCustomTools
       /\ \E name \in CustomNames, func \in CustomFuncs,
             description \in Descriptions :
             RegisterTool(name, func, description)
       /\ UNCHANGED <<memory, agent, written, held, loop, opened, pair, pymol>>

(* The agent that owns the registry, its manager on no store. *)
InitRegistry == InitOn({DefaultMaxShortTerm}, {NoStore})

SpecRegistry == InitRegistry /\ [][NextRegistry]_vars

----------------------------------------------------------------------------
(* PyMOLCommandExecutor: execute_command and the wrappers that validate
   before they call it.  How the run of the PyMOL process ends is an
   input. *)
MaxPymolCalls == 3

(* How execute_command ends: the script cannot be written, the executable
   is not found (subprocess.run raises before a process exists), or the
   process exits with 0, exits with another code, or is killed at the
   timeout. *)
RunOutcomes ==
    {"write_fails", "not_found", "exit_0", "exit_nonzero", "timeout"}

Started(outcome) == outcome \in {"exit_0", "exit_nonzero", "timeout"}

(* set_representation, line 94 *)
ValidReps ==
    { <<"l", "i", "n", "e", "s">>, <<"s", "t", "i", "c", "k", "s">>,
      <<"s", "p", "h", "e", "r", "e", "s">>,
      <<"s", "u", "r", "f", "a", "c", "e">>,
      <<"c", "a", "r", "t", "o", "o", "n">>,
      <<"r", "i", "b", "b", "o", "n">> }

(* The arguments of the calls. *)
Representations ==
    { <<"s", "t", "i", "c", "k", "s">>, <<"S", "t", "i", "c", "k", "s">>,
      <<"b", "a", "l", "l", "s">>, <<>> }

ObjectNames == { <<"m">> }
FilePaths   == { <<"a", ".", "p", "d", "b">> }
Commands    == { <<"z", "o", "o", "m">> }

(* execute_command, lines 23-74: the dict it returns, whatever happens *)
ExecuteCommand(command, outcome) ==
    [raised |-> FALSE,
     result |->
        CASE outcome = "exit_0" ->
                [success |-> TRUE, output |-> "stdout", command |-> command]
          [] outcome = "exit_nonzero" ->
                [success |-> FALSE, error |-> "stderr", command |-> command]
          [] outcome = "timeout" ->
                [success |-> FALSE,
                 error |-> "Command timed out after 30 seconds",
                 command |-> command]
          [] OTHER ->
                [success |-> FALSE, error |-> "str(e)", command |-> command]]

(* The executor after a call that went to execute_command. *)
Executed(op, arg, command, outcome) ==
    LET done == ExecuteCommand(command, outcome) IN
    [calls |-> pymol.calls + 1,
     runs |-> IF Started(outcome) THEN pymol.runs + 1 ELSE pymol.runs,
     ranBefore |-> pymol.runs,
     last |-> [op |-> op, arg |-> arg, valid |-> TRUE, outcome |-> outcome,
               raised |-> done.raised, result |-> done.result]]

(* The executor after a call that returned at its validation. *)
Rejected(op, arg, error) ==
    [calls |-> pymol.calls + 1, runs |-> pymol.runs,
     ranBefore |-> pymol.runs,
     last |-> [op |-> op, arg |-> arg, valid |-> FALSE,
               outcome |-> "none", raised |-> FALSE,
               result |-> [success |-> FALSE, error |-> error]]]

(* set_representation, line 95, without lower() *)
IsValidRepAsWritten(representation) == representation \in ValidReps

(* set_representation, line 95 *)
IsValidRep(representation) == Lower(representation) \in ValidReps


(* PyMOLCommandExecutor.set_representation *)
SetRepresentation(object_name, representation, outcome) ==
    pymol' =
        IF ~IsValidRep(representation)
        THEN Rejected("set_representation", representation,
                      "Invalid representation")
        ELSE Executed("set_representation", representation,
                      <<"s", "h", "o", "w", " ">> \o representation
                          \o <<",", " ">> \o object_name,
                      outcome)

(* PyMOLCommandExecutor.load_structure *)
LoadStructure(file_path, exists, outcome) ==
    pymol' =
        IF ~exists
        THEN Rejected("load_structure", file_path, "File not found")
        ELSE Executed("load_structure", file_path,
                      <<"l", "o", "a", "d", " ", "\"">> \o file_path
                          \o <<"\"">>,
                      outcome)

(* PyMOLCommandExecutor.get_object_list *)
GetObjectList(outcome) ==
    pymol' = Executed("get_object_list", <<>>,
                      <<"p", "r", "i", "n", "t", "(", "c", "m", "d", ".",
                        "g", "e", "t", "_", "o", "b", "j", "e", "c", "t",
                        "_", "l", "i", "s", "t", "(", ")", ")">>,
                      outcome)

NextPymol ==
    \/ /\ pymol.calls < MaxPymolCalls
       /\ \E command \in Commands, outcome \in RunOutcomes :
             pymol' = Executed("execute_command", command, command, outcome)
       /\ UNCHANGED <<memory, agent, written,
                      held, loop, opened, pair, tool_registry>>
    \/ /\ pymol.calls < MaxPymolCalls
       /\ \E object_name \in ObjectNames,
             representation \in Representations, outcome \in RunOutcomes :
             SetRepresentation(object_name, representation, outcome)
       /\ UNCHANGED <<memory, agent, written,
                      held, loop, opened, pair, tool_registry>>
    \/ /\ pymol.calls < MaxPymolCalls
       /\ \E file_path \in FilePaths, exists \in BOOLEAN,
             outcome \in RunOutcomes :
             LoadStructure(file_path, exists, outcome)
       /\ UNCHANGED <<memory, agent, written,
                      held, loop, opened, pair, tool_registry>>
    \/ /\ pymol.calls < MaxPymolCalls
       /\ \E outcome \in RunOutcomes : GetObjectList(outcome)
       /\ UNCHANGED <<memory, agent, written,
                      held, loop, opened, pair, tool_registry>>

SpecPymol == InitRegistry /\ [][NextPymol]_vars

----------------------------------------------------------------------------
(* Helpers of the properties. *)

Min(a, b) == IF a <= b THEN a ELSE b

Ids(items) == {items[i].id : i \in 1..Len(items)}

Count(items, id) == Cardinality({i \in 1..Len(items) : items[i].id = id})

InTier(items, it) == it.id \in Ids(items)

IsAdd(op) == op \in {"add_short_term", "add_long_term"}

(* The record of the store stands for the item: same four field values. *)
Holds(rec, it) ==
    /\ RecordKeys \subseteq DOMAIN rec
    /\ Len(rec.timestamp) \in {2, 3}
    /\ rec.timestamp[1] = it.timestamp.min
    /\ rec.timestamp[2] = it.timestamp.sec
    /\ (IF Len(rec.timestamp) = 3 THEN rec.timestamp[3] ELSE 0)
           = it.timestamp.usec
    /\ rec.content = it.content
    /\ rec.importance = it.importance
    /\ rec.tags = it.tags

(* A record _load_memory cannot turn into an item. *)
Malformed(rec) ==
    \/ \E k \in RecordKeys : k \notin DOMAIN rec
    \/ Len(rec.timestamp) \notin {2, 3}

----------------------------------------------------------------------------
(* C1: after every add_short_term and add_long_term call on a constructed
   manager with max_short_term >= 0, short_term holds at most
   max_short_term items. *)
C1_ShortTermBounded == Len(short_term) <= max_short_term

C1_Witness ==
    /\ max_short_term = 2
    /\ Len(added) = 3
    /\ Len(evicted) = 1
    /\ Len(short_term) = 2

(* C2: an item evicted by add_short_term is in long_term afterwards iff its
   importance is at least 0.7 (0.7 itself is kept); an evicted item of lower
   importance is in neither tier. *)
C2_EvictionGate ==
    \A i \in 1..Len(evicted) :
        LET e == evicted[i] IN
        /\ InTier(long_term, e) <=> e.importance >= 7
        /\ e.importance < 7 =>
              ~InTier(short_term, e) /\ ~InTier(long_term, e)

C2_Witness ==
    /\ \E i \in 1..Len(evicted) :
          evicted[i].importance = 7 /\ InTier(long_term, evicted[i])
    /\ \E i \in 1..Len(evicted) :
          evicted[i].importance = 5 /\ ~InTier(long_term, evicted[i])

(* C3: no item add_short_term created is in short_term and in long_term at
   once, none occurs twice in long_term, and an evicted item is out of
   short_term and at most once in long_term. *)
C3_NoDuplication ==
    /\ \A i \in 1..Len(added) :
          /\ ~(InTier(short_term, added[i]) /\ InTier(long_term, added[i]))
          /\ Count(long_term, added[i].id) <= 1
          /\ Count(short_term, added[i].id) <= 1
    /\ \A i \in 1..Len(evicted) :
          /\ Count(short_term, evicted[i].id) = 0
          /\ Count(long_term, evicted[i].id) \in {0, 1}

C3_Witness ==
    /\ Len(evicted) = 2
    /\ Count(long_term, evicted[1].id) = 1
    /\ Count(long_term, evicted[2].id) = 1
    /\ Len(short_term) = 1

(* C4: eviction is FIFO: after n add_short_term calls on a fresh manager
   short_term is the last min(n, max_short_term) items added, in the order
   added, and the items evicted are the first n - min(n, max_short_term),
   one per overflowing call, oldest first. *)
C4_Fifo ==
    LET n == Len(added)
        k == Min(n, max_short_term)
    IN /\ short_term = SubSeq(added, n - k + 1, n)
       /\ evicted = SubSeq(added, 1, n - k)

C4_Witness ==
    /\ max_short_term = 2
    /\ Len(added) = 3
    /\ added[1].importance = 5
    /\ added[2].importance = 9
    /\ short_term = <<added[2], added[3]>>
    /\ long_term = <<>>

(* C5: after an add_short_term or add_long_term call whose write succeeded
   the store holds exactly the records of the current long_term, in order,
   and nothing of its earlier content. *)
C5_StoreIsLongTerm ==
    (IsAdd(last.op) /\ last.io = "ok") =>
        /\ store.kind = "json"
        /\ Len(store.data) = Len(long_term)
        /\ \A i \in 1..Len(long_term) : Holds(store.data[i], long_term[i])

C5_Witness ==
    /\ last.op = "add_short_term"
    /\ last.io = "ok"
    /\ evicted = <<>>
    /\ persisted.valid
    /\ Len(long_term) = 2
    /\ Len(store.data) = 2

(* C6: when the write of the store fails, add_short_term and add_long_term
   return without raising and leave short_term and long_term as a
   successful call would. *)
C6_WriteFailureIsSilent ==
    (IsAdd(last.op) /\ last.io # "ok") =>
        LET it == last.item[1]
            ap == Append(before.short_term, it)
        IN /\ ~last.raised
           /\ last.op = "add_long_term" =>
                 /\ short_term = before.short_term
                 /\ long_term = Append(before.long_term, it)
           /\ (last.op = "add_short_term" /\ Len(ap) <= max_short_term) =>
                 /\ short_term = ap
                 /\ long_term = before.long_term
           /\ (last.op = "add_short_term" /\ Len(ap) > max_short_term) =>
                 /\ short_term = Tail(ap)
                 /\ long_term = IF Head(ap).importance >= 7
                                THEN Append(before.long_term, Head(ap))
                                ELSE before.long_term

C6_Witness ==
    /\ last.op = "add_short_term"
    /\ last.io = "dump_fails"
    /\ store.kind = "text"
    /\ Len(evicted) = 1
    /\ InTier(long_term, evicted[1])

(* C7: when the store exists at construction and cannot be read or parsed,
   or one of its records lacks a field or has a bad timestamp, construction
   does not raise and long_term is empty, the well-formed records before the
   bad one included. *)
C7_FailedLoadIsEmpty ==
    (/\ last.op = "construct"
     /\ store.kind # "absent"
     /\ \/ last.io = "io_error"
        \/ store.kind = "text"
        \/ \E i \in 1..Len(store.data) : Malformed(store.data[i]))
    => (long_term = <<>> /\ ~last.raised)

C7_Witness ==
    /\ last.op = "construct"
    /\ last.io = "ok"
    /\ store.kind = "json"
    /\ Len(store.data) = 2
    /\ ~Malformed(store.data[1])
    /\ Malformed(store.data[2])
    /\ long_term = <<>>

(* C8: round trip: a manager constructed on a store that a manager wrote
   and that is read back without an I/O error has a long_term of the same
   length and order as the one written, equal in timestamp, content,
   importance and tags. *)
C8_RoundTrip ==
    (last.op = "construct" /\ last.io = "ok" /\ persisted.valid) =>
        /\ Len(long_term) = Len(persisted.items)
        /\ \A i \in 1..Len(long_term) :
              /\ long_term[i].timestamp = persisted.items[i].timestamp
              /\ long_term[i].content = persisted.items[i].content
              /\ long_term[i].importance = persisted.items[i].importance
              /\ long_term[i].tags = persisted.items[i].tags

C8_Witness ==
    /\ last.op = "construct"
    /\ last.io = "ok"
    /\ persisted.valid
    /\ Len(long_term) = 2
    /\ long_term[1].timestamp.usec # 0
    /\ long_term[2].timestamp.usec = 0
    /\ long_term[2].tags # <<>>

(* C9: add_long_term appends exactly one new item at the end of long_term
   whatever its importance, and changes neither short_term nor the earlier
   items of long_term. *)
C9_AddLongTermAppends ==
    last.op = "add_long_term" =>
        /\ Len(last.item) = 1
        /\ ~InTier(before.long_term, last.item[1])
        /\ ~InTier(before.short_term, last.item[1])
        /\ long_term = Append(before.long_term, last.item[1])
        /\ short_term = before.short_term

C9_Witness ==
    /\ last.op = "add_long_term"
    /\ last.item[1].importance = 5
    /\ Len(long_term) = 2
    /\ Len(before.long_term) = 1
    /\ long_term[2] = last.item[1]
    /\ Len(short_term) = 1

(* The characters a..b of q are a whitespace-delimited token of q. *)
IsToken(q, a, b) ==
    /\ a <= b
    /\ \A k \in a..b : q[k] \notin {" ", "\t"}
    /\ a = 1 \/ q[a - 1] \in {" ", "\t"}
    /\ b = Len(q) \/ q[b + 1] \in {" ", "\t"}

(* Two characters that are equal when case is ignored. *)
SameLetter(c, d) ==
    \/ c = d
    \/ {c, d} \in { {"B", "b"}, {"I", "i"}, {"S", "s"}, {"T", "t"},
                    {"E", "e"}, {"Q", "q"} }

(* Some token of q occurs in content, case ignored. *)
TokenIn(q, content) ==
    \E a \in 1..Len(q), b \in 1..Len(q) :
        /\ IsToken(q, a, b)
        /\ \E i \in 0..(Len(content) - (b - a + 1)) :
              \A k \in 0..(b - a) : SameLetter(content[i + 1 + k], q[a + k])

(* C10: search_memory returns an item only if it is in short_term or
   long_term and some whitespace-delimited token of the query occurs, case
   ignored, in its content (its tags do not count); when limit is at least
   the number of matching items, every matching item is returned. *)
C10_SearchByContent ==
    last.op = "search_memory" =>
        LET all == short_term \o long_term
            hits == {j \in 1..Len(all) : TokenIn(last.query, all[j].content)}
        IN /\ \A i \in 1..Len(last.ret) :
                 /\ \E j \in 1..Len(all) : all[j] = last.ret[i]
                 /\ TokenIn(last.query, last.ret[i].content)
           /\ last.limit >= Cardinality(hits) =>
                 \A j \in hits : \E i \in 1..Len(last.ret) :
                     last.ret[i] = all[j]

C10_Witness ==
    /\ last.op = "search_memory"
    /\ last.query = qBind
    /\ Len(last.ret) = 1
    /\ last.ret[1].content = sBindIt
    /\ InTier(long_term, last.ret[1])
    /\ \E j \in 1..Len(short_term) :
          /\ short_term[j].tags = <<qBind>>
          /\ ~TokenIn(qBind, short_term[j].content)

(* The place of an item in a sequence of items. *)
PlaceIn(items, it) == CHOOSE j \in 1..Len(items) : items[j].id = it.id

(* x goes before y in the order of the result: greater importance first,
   and among equal importances the one met first in all. *)
GoesBefore(all, x, y) ==
    \/ x.importance > y.importance
    \/ x.importance = y.importance /\ PlaceIn(all, x) < PlaceIn(all, y)

(* C11: the result of search_memory is ordered by importance, greatest
   first, and items of equal importance keep their order in short_term
   followed by long_term; it is the first limit entries of that ordering,
   so it has min(limit, number of matching items) items for limit >= 0. *)
C11_SearchOrder ==
    last.op = "search_memory" =>
        LET all == short_term \o long_term
            hits == {j \in 1..Len(all) : TokenIn(last.query, all[j].content)}
            ret == last.ret
            left == {j \in hits : \A i \in 1..Len(ret) : ret[i] # all[j]}
        IN /\ Len(ret) = Min(last.limit, Cardinality(hits))
           /\ \A i \in 1..(Len(ret) - 1) : GoesBefore(all, ret[i], ret[i + 1])
           /\ \A j \in left : \A i \in 1..Len(ret) :
                 GoesBefore(all, ret[i], all[j])

C11_Witness ==
    /\ last.op = "search_memory"
    /\ last.limit = 2
    /\ Len(last.ret) = 2
    /\ InTier(short_term, last.ret[1])
    /\ InTier(long_term, last.ret[2])
    /\ last.ret[1].importance = last.ret[2].importance
    /\ Len(long_term) = 2
    /\ long_term[2] = last.ret[2]
    /\ long_term[1].importance < last.ret[2].importance
    /\ TokenIn(last.query, long_term[1].content)

(* C12: search_memory with a query that is empty or has whitespace
   characters only returns the empty sequence without raising, whatever is
   stored, an item of empty content included. *)
C12_BlankQueryFindsNothing ==
    (/\ last.op = "search_memory"
     /\ \A k \in 1..Len(last.query) : last.query[k] \in {" ", "\t"})
    => (last.ret = <<>> /\ ~last.raised)

C12_Witness ==
    /\ last.op = "search_memory"
    /\ last.query = qBlank
    /\ last.limit = 5
    /\ last.ret = <<>>
    /\ \E i \in 1..Len(short_term) : short_term[i].content = <<>>
    /\ \E i \in 1..Len(long_term) : long_term[i].content = sBindIt

(* C13: get_context returns 'No previous context.' exactly when short_term
   is empty, whatever long_term holds and whatever the limit, and so on a
   manager just constructed with a long_term loaded from the store. *)
C13_SentinelIffShortTermEmpty ==
    last.op = "get_context" => (last.ret = Sentinel <=> short_term = <<>>)

C13_Witness ==
    /\ last.op = "get_context"
    /\ ops = 0
    /\ short_term = <<>>
    /\ Len(long_term) = 1
    /\ last.limit = 5
    /\ last.ret = Sentinel

(* The lines get_context is to return for the last k items of short_term. *)
LastLines(k) ==
    LET n == Len(short_term)
        shown == SubSeq(short_term, n - k + 1, n)
    IN JoinLines([i \in 1..k |-> ContextLine(shown[i])])

(* C14: for every limit >= 0 and a short_term that is not empty,
   get_context(limit) is the lines of the last min(limit, len(short_term))
   items of short_term, one line an item, in stored order, and nothing of
   long_term. *)
C14_ContextIsLastItems ==
    (last.op = "get_context" /\ last.limit >= 0 /\ short_term # <<>>) =>
        last.ret = LastLines(Min(last.limit, Len(short_term)))

(* C15: search_memory and get_context do not fail in any reachable state,
   a long_term loaded from any store the load accepted included. *)
C15_QueriesNeverRaise == IsQuery(last.op) => ~last.raised

(* Two items of equal timestamp, content, importance and tags. *)
SameFields(x, y) ==
    /\ x.timestamp = y.timestamp
    /\ x.content = y.content
    /\ x.importance = y.importance
    /\ x.tags = y.tags

(* C16: a manager constructed on the store of an earlier manager has an
   empty short_term; the items the earlier manager had in short_term are in
   neither of its tiers, and its long_term has nothing but records of the
   store; every item of the earlier manager's long_term at its last
   successful write is in its long_term (stated for a construction that
   reads the store without an I/O error). *)
C16_RestartKeepsWrittenLongTerm ==
    (last.op = "construct" /\ ops > 0) =>
        /\ short_term = <<>>
        /\ \A i \in 1..Len(before.short_term) :
              /\ ~InTier(short_term, before.short_term[i])
              /\ ~InTier(long_term, before.short_term[i])
        /\ \A j \in 1..Len(long_term) :
              /\ store.kind = "json"
              /\ \E i \in 1..Len(store.data) :
                    Holds(store.data[i], long_term[j])
        /\ (last.io = "ok" /\ written.any) =>
              \A i \in 1..Len(written.items) :
                  \E j \in 1..Len(long_term) :
                      SameFields(long_term[j], written.items[i])

(* The entry add_short_term created last, and the one before it. *)
LastAdded == added[Len(added)]
AddedBeforeLast == added[Len(added) - 1]

(* The item is the record of the user turn of the message in process. *)
IsUserTurn(it) ==
    /\ it.content = <<"U", "s", "e", "r", ":", " ">> \o agent.message
    /\ it.importance = 8

(* C17: in every process_message cycle the user turn is recorded with
   add_short_term at importance 0.8 before the model is called, and every
   reply of the model that process_message returns, the direct text reply
   and the final reply after tool calls, is recorded with add_short_term at
   importance 0.9. *)
C17_TurnsRecorded ==
    /\ agent.pc \in {"model", "tools", "final"} =>
          /\ Len(added) >= 1
          /\ IsUserTurn(LastAdded)
          /\ InTier(short_term, LastAdded)
    /\ agent.pc = "model" =>
          last.op = "add_short_term" /\ last.item = <<LastAdded>>
    /\ (agent.pc = "idle" /\ agent.returned.kind = "reply") =>
          /\ Len(added) >= 2
          /\ IsUserTurn(AddedBeforeLast)
          /\ last.op = "add_short_term" /\ last.item = <<LastAdded>>
          /\ LastAdded.importance = 9
          /\ LastAdded.content =
                 <<"A", "g", "e", "n", "t", ":", " ">>
                     \o (IF agent.returned.text = NoText
                         THEN <<"N", "o", "n", "e">>
                         ELSE agent.returned.text)
          /\ InTier(short_term, LastAdded)

C17_Witness ==
    /\ agent.pc = "idle"
    /\ agent.turns = 2
    /\ agent.returned.kind = "reply"
    /\ agent.returned.via = "tools"
    /\ agent.returned.text = sOk
    /\ Len(added) = 4
    /\ added[2].importance = 9
    /\ added[3].importance = 8
    /\ added[4].importance = 9

(* The response has the shape of a tool result: a boolean success, an
   error exactly when success is false, a payload when it is true. *)
IsToolResult(response) ==
    /\ "success" \in DOMAIN response
    /\ response.success \in BOOLEAN
    /\ ("error" \in DOMAIN response) <=> (response.success = FALSE)
    /\ response.success = TRUE =>
          DOMAIN response \ {"success", "error"} # {}

(* C18: every result a registered tool function returns and every tool
   result the dispatcher hands back to the model has a boolean 'success',
   an 'error' exactly when success is false and a payload when it is
   true. *)
C18_ToolResultShape ==
    \A i \in 1..Len(agent.results) : IsToolResult(agent.results[i].response)

(* s is t or the beginning of t. *)
IsPrefix(s, t) == Len(s) <= Len(t) /\ SubSeq(t, 1, Len(s)) = s

(* C19: after construction long_term changes by appending at its end only:
   the long_term a call of the manager leaves has the long_term it found as
   a prefix (so has every earlier one since construction), at most one item
   longer, and the promoted items are in it in the order of their
   eviction. *)
C19_LongTermAppendOnly ==
    /\ last.op # "construct" =>
          /\ IsPrefix(before.long_term, long_term)
          /\ Len(long_term) <= Len(before.long_term) + 1
    /\ \A m \in 1..Len(evicted), n \in 1..Len(evicted) :
          m < n =>
              \A i \in 1..Len(long_term), j \in 1..Len(long_term) :
                  (long_term[i].id = evicted[m].id
                       /\ long_term[j].id = evicted[n].id) => i < j

C19_Witness ==
    /\ last.op = "add_short_term"
    /\ Len(evicted) = 2
    /\ Len(long_term) = 3
    /\ long_term[2] = evicted[1]
    /\ long_term[3] = evicted[2]
    /\ before.long_term = SubSeq(long_term, 1, 2)

(* The items of the two tiers. *)
Stored == short_term \o long_term

(* C20: no call of the manager changes the timestamp, content, importance
   or tags of an item: an item a call found in a tier and left in a tier
   has its four values, and an item add_short_term created has, wherever it
   is, the values of its creation; so a promoted item has in long_term the
   values it had in short_term, its timestamp of creation among them. *)
C20_ItemsUnchanged ==
    LET stored == Stored
        found == before.short_term \o before.long_term
    IN
    /\ last.op # "construct" =>
          \A i \in 1..Len(found), j \in 1..Len(stored) :
              stored[j].id = found[i].id => SameFields(stored[j], found[i])
    /\ \A i \in 1..Len(added), j \in 1..Len(stored) :
          stored[j].id = added[i].id => SameFields(stored[j], added[i])
    /\ \A i \in 1..Len(evicted), j \in 1..Len(added) :
          evicted[i].id = added[j].id => SameFields(evicted[i], added[j])

C20_Witness ==
    /\ last.op = "add_short_term"
    /\ Len(evicted) = 1
    /\ long_term = Append(before.long_term, evicted[1])
    /\ Len(before.short_term) = 1
    /\ before.short_term[1] = evicted[1]
    /\ evicted[1].id # last.item[1].id
    /\ evicted[1].timestamp # last.item[1].timestamp
    /\ evicted[1].tags # <<>>

(* C21: search_memory and get_context change nothing: short_term, long_term
   and the store after the call are what they were before it.  The list
   search_memory returned stays as it was handed over, the same items in
   the same order, whatever is added to short_term or long_term after. *)
C21_QueriesReadOnly ==
    /\ IsQuery(last.op) => /\ Snapshot = before
                           /\ store = held.store
    /\ held.taken => Observed(held.list) = held.was

(* An add after the search, and the same search would now answer
   otherwise. *)
C21_Witness ==
    /\ held.taken
    /\ IsAdd(last.op)
    /\ Len(held.was) >= 1
    /\ SearchResult(short_term, long_term, held.list.query, held.list.limit)
          # held.was

(* C22: the memory operations of two process_message cycles do not
   interleave.  While a cycle is between its first and its last memory
   operation its task has control and no other task is inside a cycle; the
   user entry of a cycle and its reply or error entry are next to each
   other in the order add_short_term created them. *)
C22_CyclesDoNotInterleave ==
    /\ \A t \in Tasks : t # loop.current => loop.frames[t].pc = "idle"
    /\ agent.pc # "idle" => loop.running
    /\ Len(loop.owners) = Len(added)
    /\ \A p, q \in 1..Len(loop.owners) :
          (p < q /\ loop.owners[p] = loop.owners[q]) => q = p + 1

(* Two cycles of different tasks are over, the second task's first. *)
C22_Witness ==
    /\ Len(loop.owners) = 4
    /\ loop.owners[1][1] = "second"
    /\ loop.owners[3][1] = "first"
    /\ ~loop.running

(* C23: every process_message call adds exactly two entries to short-term
   memory and returns a string: the user entry at importance 0.8 first,
   then one reply entry at 0.9, or one error entry at 1.0 whose text is the
   string returned when the model call, the tool round or the reply
   extraction raised. *)
C23_TwoEntriesAndAString ==
    /\ Len(added) = IF agent.pc = "idle" THEN 2 * agent.turns
                    ELSE 2 * agent.turns - 1
    /\ \A i \in 1..Len(added) :
          added[i].importance = IF i % 2 = 1 THEN UserImportance
                                ELSE IF IsPrefix(AgentPrefix,
                                                 added[i].content)
                                     THEN ReplyImportance
                                     ELSE ErrorImportance
    /\ (agent.pc = "idle" /\ agent.turns > 0) =>
          /\ agent.returned.kind \in {"reply", "error"}
          /\ agent.returned.text # NoText
          /\ agent.returned.kind = "reply" =>
                LastAdded.content = AgentPrefix \o agent.returned.text
          /\ agent.returned.kind = "error" =>
                /\ LastAdded.content = agent.returned.text
                /\ LastAdded.importance = ErrorImportance

(* C24: with process_message the only caller no entry is discarded.  Every
   entry it adds has importance 0.8, 0.9 or 1.0, every item short_term
   dropped is in long_term, and short_term and long_term together hold the
   items loaded at construction and two per call (one while the call waits
   for the model); long_term holds the loaded items and one item for each
   entry beyond the ten short_term keeps. *)
C24_NothingDiscarded ==
    LET loaded == nextId - 1 - Len(added) IN
    /\ \A i \in 1..Len(added) :
          added[i].importance
              \in {UserImportance, ReplyImportance, ErrorImportance}
    /\ \A i \in 1..Len(evicted) : InTier(long_term, evicted[i])
    /\ Len(added) = IF agent.pc = "idle" THEN 2 * agent.turns
                    ELSE 2 * agent.turns - 1
    /\ Len(short_term) + Len(long_term) = loaded + Len(added)
    /\ Len(evicted) = IF Len(added) > DefaultMaxShortTerm
                      THEN Len(added) - DefaultMaxShortTerm ELSE 0
    /\ Len(long_term) = loaded + Len(evicted)

(* Six calls on a manager that loaded an item: short_term dropped the user
   entry and the error entry of the first call. *)
C24_Witness ==
    /\ agent.pc = "idle"
    /\ agent.turns = 6
    /\ Len(evicted) = 2
    /\ evicted[2].importance = ErrorImportance
    /\ Len(long_term) = 3

(* The store is long_term as written out, record for item, and long_term
   was empty before the call and has nothing but the item the call made:
   no record of the store stands for an item of before the construction. *)
RewrittenFromEmpty ==
    /\ store.kind = "json"
    /\ Len(store.data) = Len(long_term)
    /\ \A i \in 1..Len(long_term) :
          /\ Holds(store.data[i], long_term[i])
          /\ long_term[i].id = last.item[1].id
    /\ Len(long_term) <= 1
    /\ before.long_term = <<>>

(* C25: a construction whose load fails leaves the store as it found it;
   the first add_short_term or add_long_term after it rewrites the store
   from long_term, which started empty, so that the records the store held
   before the construction are not in it afterwards. *)
C25_FirstAddRewritesStore ==
    /\ last.op = "construct" => store = opened.store
    /\ (opened.failed /\ opened.adds = 1 /\ IsAdd(last.op)) =>
          RewrittenFromEmpty

(* C25, amended: the first add after a failed load rewrites the store from
   the long_term that started empty when its write succeeds; when the store
   cannot be opened for writing it stays as the construction found it, its
   records still in it, and when the dump fails it is left cut short. *)
C25_FirstGoodAddRewritesStore ==
    /\ last.op = "construct" => store = opened.store
    /\ (opened.failed /\ opened.adds = 1 /\ IsAdd(last.op)) =>
          /\ last.io = "ok" => RewrittenFromEmpty
          /\ last.io = "open_fails" => store = opened.store
          /\ last.io = "dump_fails" => store = TextStore

(* The load failed on a store of two records, the second with a bad
   timestamp, and add_long_term then wrote the store. *)
C25_Witness ==
    /\ opened.failed
    /\ opened.adds = 1
    /\ last.op = "add_long_term"
    /\ last.io = "ok"
    /\ opened.store.kind = "json"
    /\ Len(opened.store.data) = 2
    /\ Len(store.data) = 1

(* C27: a failed write loses nothing that is still in memory.  After calls
   whose write failed, the next add_short_term or add_long_term whose write
   succeeds leaves the store holding the whole of long_term, in order, the
   items appended or promoted during the failed calls among them. *)
C27_GoodWriteSavesAll ==
    (IsAdd(last.op) /\ last.io = "ok") =>
        /\ store.kind = "json"
        /\ Len(store.data) = Len(long_term)
        /\ \A i \in 1..Len(long_term) : Holds(store.data[i], long_term[i])
        /\ \A k \in 1..Len(opened.flushed) :
              \E i \in 1..Len(long_term) :
                 /\ long_term[i].id = opened.flushed[k].id
                 /\ Holds(store.data[i], opened.flushed[k])

(* Two calls whose write failed, one promoting an item and one appending
   one, and then a call whose write succeeded. *)
C27_Witness ==
    /\ IsAdd(last.op)
    /\ last.io = "ok"
    /\ Len(opened.flushed) = 2
    /\ InTier(evicted, opened.flushed[1])
    /\ ~InTier(evicted, opened.flushed[2])
    /\ Len(store.data) >= 2

(* The long_term of the manager of this name. *)
LongTermOf(name) ==
    IF pair.inHand = name THEN long_term ELSE pair.parked.long_term

(* C26: with two managers on one store the store after a write is the
   long_term of the manager that wrote last, record for item, and no item
   the other manager made and put in its long_term after the writer was
   constructed is in the store: the last writer wins, nothing is merged
   and nothing is read again. *)
C26_LastWriterWins ==
    pair.writer # "none" =>
        LET mine == LongTermOf(pair.writer)
            theirs == LongTermOf(Other(pair.writer))
        IN /\ store.kind = "json"
           /\ Len(store.data) = Len(mine)
           /\ \A i \in 1..Len(mine) : Holds(store.data[i], mine[i])
           /\ \A k \in 1..Len(theirs) :
                 (/\ theirs[k].id \in pair.made[Other(pair.writer)]
                  /\ theirs[k].id >= pair.born[pair.writer])
                 => \A i \in 1..Len(store.data) :
                        ~Holds(store.data[i], theirs[k])

(* The second manager put an item in its long_term and wrote it; then the
   first wrote, and the item of the second is in the store no more. *)
C26_Witness ==
    /\ pair.constructed
    /\ pair.writer = "first"
    /\ Len(store.data) >= 1
    /\ \E k \in 1..Len(LongTermOf("second")) :
          LongTermOf("second")[k].id \in pair.made.second

(* The calls of registered tools among these, in order. *)
RegisteredCalls(calls) == SelectSeq(calls, LAMBDA n : n \in Registered)

(* C28: the responses of the tool round are in the order of the model's
   function calls, one for each call of a registered tool: what the tool
   returned, or {'error': message} when it raised, the calls after it
   answered all the same.  A call of a name that is not registered has no
   response, so the responses are at most as many as the calls. *)
C28_ResponsesFollowCalls ==
    agent.pc = "final" =>
        LET answered == RegisteredCalls(agent.calls) IN
        /\ Len(agent.results) = Len(answered)
        /\ Len(agent.results) <= Len(agent.calls)
        /\ \A i \in 1..Len(answered) :
              /\ agent.results[i].name = answered[i]
              /\ \/ agent.results[i].response \in ToolReturns(answered[i])
                 \/ DOMAIN agent.results[i].response = {"error"}

(* Three calls: the first tool raised, the second name is not registered,
   the third tool answered. *)
C28_Witness ==
    /\ agent.pc = "final"
    /\ Len(agent.calls) = 3
    /\ agent.calls[2] \notin Registered
    /\ Len(agent.results) = 2
    /\ DOMAIN agent.results[1].response = {"error"}
    /\ agent.results[2].name = "execute_pymol_command"
    /\ agent.results[2].response \in ToolReturns("execute_pymol_command")

(* The names of the register_tool calls made. *)
CalledNames ==
    {tool_registry.calls[i].name : i \in 1..Len(tool_registry.calls)}

(* The last register_tool call of this name. *)
LatestCall(name) ==
    LET at == {i \in 1..Len(tool_registry.calls) :
                  tool_registry.calls[i].name = name}
    IN tool_registry.calls[CHOOSE i \in at : \A j \in at : j <= i]

(* C29: after any register_tool calls tool_declarations has one entry for
   each call, in call order, and tools has one entry for each name
   registered, bound to the function of the latest call of that name; so
   tool_declarations is at least as long as tools, and as long exactly when
   no name was registered twice, as it is after the construction of
   IntegratedPyMOLAgent. *)
C29_DeclarationsPerCall ==
    LET calls == tool_registry.calls
        decls == tool_registry.tool_declarations
        tools == tool_registry.tools
    IN /\ Len(decls) = Len(calls)
       /\ \A i \in 1..Len(calls) : decls[i].name = calls[i].name
       /\ DOMAIN tools = CalledNames
       /\ \A n \in CalledNames : tools[n] = LatestCall(n).func
       /\ Len(decls) >= Cardinality(DOMAIN tools)
       /\ Len(decls) = Cardinality(DOMAIN tools)
             <=> \A i, j \in 1..Len(calls) :
                    calls[i].name = calls[j].name => i = j
       /\ (CustomCalls = 0 /\ Len(calls) = Len(ConstructionTools)) =>
             Len(decls) = Cardinality(DOMAIN tools)

(* The construction done, echo_message is registered again with another
   function. *)
C29_Witness ==
    /\ Len(tool_registry.calls) = Len(ConstructionTools) + 1
    /\ tool_registry.calls[Len(tool_registry.calls)].name = "echo_message"
    /\ tool_registry.tools["echo_message"] = "f"
    /\ Cardinality(DOMAIN tool_registry.tools) = Len(ConstructionTools)

(* C30: the PyMOL tools validate before they execute.  set_representation
   with a representation that is none of lines, sticks, spheres, surface,
   cartoon and ribbon, letter case aside, and load_structure with a path
   that does not exist return success False with an error and do not start
   the PyMOL process, and every other call goes on to execute_command;
   however execute_command ends (exit code 0, another exit code, the
   timeout, any other exception) the call returns a result and does not
   raise. *)
C30_ValidationBeforeExecution ==
    /\ ~pymol.last.raised
    /\ "success" \in DOMAIN pymol.last.result
    /\ ~pymol.last.valid =>
          /\ pymol.last.op \in {"set_representation", "load_structure"}
          /\ ~pymol.last.result.success
          /\ "error" \in DOMAIN pymol.last.result
          /\ pymol.runs = pymol.ranBefore
    /\ (pymol.last.valid /\ pymol.last.op # "none") =>
          /\ "command" \in DOMAIN pymol.last.result
          /\ pymol.last.result.success <=> pymol.last.outcome = "exit_0"
          /\ ~pymol.last.result.success =>
                "error" \in DOMAIN pymol.last.result
          /\ pymol.runs = pymol.ranBefore
                             + (IF Started(pymol.last.outcome) THEN 1 ELSE 0)
    /\ pymol.last.op = "set_representation" =>
          (pymol.last.valid <=> Lower(pymol.last.arg) \in ValidReps)

(* The process ran and timed out in an earlier call; set_representation
   then refused a representation and the process was not started again. *)
C30_Witness ==
    /\ pymol.last.op = "set_representation"
    /\ ~pymol.last.valid
    /\ pymol.last.arg = <<"b", "a", "l", "l", "s">>
    /\ pymol.runs = 1
    /\ pymol.calls = 3

====
